---------------------------- MODULE Spec2Model ----------------------------
(***************************************************************************)
(* The email campaign backend.                                             *)
(*                                                                         *)
(* Text utilities (backend/app/utils/text_utils.py): the normaliser        *)
(* clean_text, the tokenisers, the syllable counter, the readability       *)
(* scores, the keyword and sentiment extraction and the composite          *)
(* statistics report; specification Spec.                                  *)
(*                                                                         *)
(* Campaign endpoints (backend/app/api/v1/endpoints/campaigns.py): the     *)
(* handlers that create, update, delete, send, schedule, pause and resume  *)
(* a campaign, and the background send task; specification SpecCampaigns.  *)
(*                                                                         *)
(* Rate limiting (backend/app/core/dependencies.py, check_rate_limit) over *)
(* the Redis counters of one client, with the time in steps of             *)
(* TickSeconds; specification SpecRateLimit.                               *)
(*                                                                         *)
(* The Redis list queue (backend/app/core/redis.py, Queue); specification  *)
(* SpecQueue.                                                              *)
(*                                                                         *)
(* A text is a sequence of characters; a character is a one-character      *)
(* string, or the code point name of a typographic character ("U+2013").   *)
(* Python dictionaries are functions from their keys; floating point       *)
(* results are exact rationals, reported as integers scaled by the         *)
(* precision the code rounds to (hundredths for round(x, 2), tenths for    *)
(* round(x, 1)).                                                           *)
(***************************************************************************)
EXTENDS Integers, Sequences, FiniteSets, TLC

VARIABLES text, call, max_keywords, result

\* campaigns        the rows of the campaigns table the requests name
\* other_campaigns  per user, the number of that user's further rows
\* creating         per user, the create_campaign requests between their
\*                  limit check and their insert
\* background_tasks per campaign, the send_campaign_background tasks added
\*                  and not yet run
\* response         the response of the last request
VARIABLES campaigns, other_campaigns, creating, background_tasks, response

\* minute, hour     the client's counter keys rate_limit:<ip>:minute and
\*                  :hour: None, or the count and the seconds to live
\* passed_minute    the check_rate_limit calls between their minute check
\*                  and their read of the hour counter
\* passed_hour      the calls between their hour check and their pipeline
\* last_check       what the last check_rate_limit call to return returned,
\*                  and the check that made it return
\* now, this_tick   the ticks elapsed, and the calls begun at this tick
VARIABLES minute, hour, passed_minute, passed_hour, last_check, now, this_tick

\* redis_list       the Redis list of the queue, its left end first
\* enqueued         the items given to enqueue and not yet popped, oldest
\*                  first
\* dequeued         what the last dequeue returned
VARIABLES redis_list, enqueued, dequeued

text_vars == <<text, call, max_keywords, result>>

rate_vars ==
    <<minute, hour, passed_minute, passed_hour, last_check, now, this_tick>>

queue_vars == <<redis_list, enqueued, dequeued>>

redis_vars == <<rate_vars, queue_vars>>

campaign_vars ==
    <<campaigns, other_campaigns, creating, background_tasks, response>>

vars == <<text_vars, campaign_vars, redis_vars>>

---------------------------------------------------------------------------
(* Characters                                                              *)

EnDash == "U+2013"
EmDash == "U+2014"
LeftSingleQuote == "U+2018"
RightSingleQuote == "U+2019"
LeftDoubleQuote == "U+201C"
RightDoubleQuote == "U+201D"

LowerLetters ==
    <<"a","b","c","d","e","f","g","h","i","j","k","l","m",
      "n","o","p","q","r","s","t","u","v","w","x","y","z">>

UpperLetters ==
    <<"A","B","C","D","E","F","G","H","I","J","K","L","M",
      "N","O","P","Q","R","S","T","U","V","W","X","Y","Z">>

Digits == {"0","1","2","3","4","5","6","7","8","9"}

\* \w of the re module
WordChars ==
    {LowerLetters[i] : i \in 1..26} \cup {UpperLetters[i] : i \in 1..26}
        \cup Digits \cup {"_"}

\* \s of the re module, and what str.strip() strips
Whitespace == {" ", "\t", "\n", "\r"}

\* the punctuation the character class of clean_text keeps
KeptPunctuation == {".", ",", "!", "?", ";", ":", "(", ")", "'", "\"", "-"}

\* [.!?]
Terminators == {".", "!", "?"}

UpperToLower ==
    [c \in {UpperLetters[i] : i \in 1..26} |->
        LowerLetters[CHOOSE i \in 1..26 : UpperLetters[i] = c]]

\* str.lower() on one character
LowerChar(c) == IF c \in DOMAIN UpperToLower THEN UpperToLower[c] ELSE c

\* str.lower()
Lower(s) == [i \in 1..Len(s) |-> LowerChar(s[i])]

---------------------------------------------------------------------------
(* String helpers of the Python runtime                                    *)

RECURSIVE LStrip(_)
LStrip(s) ==
    IF s # <<>> /\ Head(s) \in Whitespace THEN LStrip(Tail(s)) ELSE s

RECURSIVE RStrip(_)
RStrip(s) ==
    IF s # <<>> /\ s[Len(s)] \in Whitespace
    THEN RStrip(SubSeq(s, 1, Len(s) - 1))
    ELSE s

\* str.strip()
Strip(s) == RStrip(LStrip(s))

\* re.sub(r'\s+', ' ', s): every maximal whitespace run becomes one space
RECURSIVE CollapseWhitespace(_)
CollapseWhitespace(s) ==
    IF s = <<>> THEN <<>>
    ELSE IF Head(s) \in Whitespace
         THEN <<" ">> \o CollapseWhitespace(LStrip(s))
         ELSE <<Head(s)>> \o CollapseWhitespace(Tail(s))

\* re.sub(r'[^\w\s.,!?;:()\'"-]', '', s)
RemoveSpecial(s) ==
    SelectSeq(s, LAMBDA c : c \in WordChars \cup Whitespace \cup KeptPunctuation)

\* str.replace(old, new), old not empty: leftmost non-overlapping occurrences
RECURSIVE Replace(_, _, _)
Replace(s, old, new) ==
    IF Len(s) < Len(old) THEN s
    ELSE IF SubSeq(s, 1, Len(old)) = old
         THEN new \o Replace(SubSeq(s, Len(old) + 1, Len(s)), old, new)
         ELSE <<Head(s)>> \o Replace(Tail(s), old, new)

\* The literal of line 33 that opens with ''' and closes at the next ''':
\* the 15 characters  , "'").replace(
TripleQuotedLiteral ==
    <<",", " ", "\"", "'", "\"", ")", ".",
      "r", "e", "p", "l", "a", "c", "e", "(">>

---------------------------------------------------------------------------
(* clean_text                                                              *)

\* line 26
CollapseStep(s) == CollapseWhitespace(Strip(s))

\* lines 32-34
NormalizeQuotesAndDashes(s) ==
    LET q == Replace(Replace(s, <<"\"">>, <<"\"">>), <<"\"">>, <<"\"">>)
        a == Replace(q, TripleQuotedLiteral, <<"'">>)
    IN  Replace(Replace(a, <<EnDash>>, <<"-">>), <<EmDash>>, <<"-">>)

clean_text(s) ==
    IF s = <<>> THEN <<>>
    ELSE NormalizeQuotesAndDashes(RemoveSpecial(CollapseStep(s)))

---------------------------------------------------------------------------
(* Tokenisers                                                              *)

\* re.findall(r'\b\w+\b', s): the maximal runs of word characters, in order
RECURSIVE WordRuns(_, _)
WordRuns(s, cur) ==
    LET done == IF cur = <<>> THEN <<>> ELSE <<cur>>
    IN  IF s = <<>> THEN done
        ELSE IF Head(s) \in WordChars
             THEN WordRuns(Tail(s), Append(cur, Head(s)))
             ELSE done \o WordRuns(Tail(s), <<>>)

FindWords(s) == WordRuns(s, <<>>)

\* re.split(r'[.!?]+', s): the pieces between the terminator runs, the empty
\* pieces before a leading run and after a trailing run included
RECURSIVE SplitRuns(_, _, _)
SplitRuns(s, cur, inRun) ==
    IF s = <<>> THEN <<cur>>
    ELSE IF Head(s) \in Terminators
         THEN IF inRun THEN SplitRuns(Tail(s), cur, TRUE)
              ELSE <<cur>> \o SplitRuns(Tail(s), <<>>, TRUE)
         ELSE SplitRuns(Tail(s), Append(cur, Head(s)), FALSE)

SplitSentences(s) == SplitRuns(s, <<>>, FALSE)

\* [s.strip() for s in sentences if s.strip()]
NonEmptySentences(pieces) ==
    LET stripped == [i \in 1..Len(pieces) |-> Strip(pieces[i])]
    IN  SelectSeq(stripped, LAMBDA x : x # <<>>)

\* str.split(sep), sep not empty
RECURSIVE SplitOn(_, _, _)
SplitOn(s, sep, cur) ==
    IF Len(s) < Len(sep) THEN <<cur \o s>>
    ELSE IF SubSeq(s, 1, Len(sep)) = sep
         THEN <<cur>> \o SplitOn(SubSeq(s, Len(sep) + 1, Len(s)), sep, <<>>)
         ELSE SplitOn(Tail(s), sep, Append(cur, Head(s)))

---------------------------------------------------------------------------
(* count_syllables, count_complex_words                                    *)

Vowels == {"a", "e", "i", "o", "u", "y"}

\* the loop of lines 149-153: the number of vowel groups
RECURSIVE VowelGroups(_, _)
VowelGroups(s, on_vowel) ==
    IF s = <<>> THEN 0
    ELSE LET is_vowel == Head(s) \in Vowels
         IN  (IF is_vowel /\ ~on_vowel THEN 1 ELSE 0)
                 + VowelGroups(Tail(s), is_vowel)

Max(a, b) == IF a >= b THEN a ELSE b
Min(a, b) == IF a <= b THEN a ELSE b

\* count_syllables without the floor of line 160
CountSyllablesNoFloor(s) ==
    LET t == Lower(s)
        count == VowelGroups(t, FALSE)
    IN  IF t # <<>> /\ t[Len(t)] = "e" THEN count - 1 ELSE count

count_syllables(s) ==
    LET t == Lower(s)
        count == VowelGroups(t, FALSE)
        adjusted == IF t # <<>> /\ t[Len(t)] = "e" THEN count - 1 ELSE count
    IN  Max(1, adjusted)

ComplexWordSyllables == 3

RECURSIVE SumOf(_)
SumOf(numbers) ==
    IF numbers = <<>> THEN 0 ELSE Head(numbers) + SumOf(Tail(numbers))

\* count_complex_words adding the syllables of a complex word, not 1
ComplexSyllablesAdded(s) ==
    LET words == FindWords(Lower(s))
    IN  SumOf([i \in 1..Len(words) |->
                 IF count_syllables(words[i]) >= ComplexWordSyllables
                 THEN count_syllables(words[i]) ELSE 0])

count_complex_words(s) ==
    LET words == FindWords(Lower(s))
    IN  Cardinality({i \in 1..Len(words) :
                        count_syllables(words[i]) >= ComplexWordSyllables})

---------------------------------------------------------------------------
(* calculate_readability_score                                             *)

\* {} of Python
EmptyDict == [k \in {} |-> k]

\* what a call that raises leaves instead of a return value
Raised(exception) == [raised |-> exception]

\* round(n / d, k) as an integer in units of 10^-k, n already scaled by 10^k:
\* the nearest integer to n / d (n >= 0, d > 0). A tie goes to the even one,
\* as round() sends a tie that binary floating point represents exactly; a
\* tie it cannot represent (35.605) falls to the side of the float error,
\* which this model does not follow: there the last digit may differ by one.
RoundDiv(n, d) ==
    LET q == n \div d
        r == n - q * d
    IN  IF 2 * r < d THEN q
        ELSE IF 2 * r > d THEN q + 1
        ELSE IF q % 2 = 0 THEN q ELSE q + 1

\* NoSentencesOrWords without its word count test
NoSentencesOnly(num_sentences, num_words) ==
    num_sentences = 0

\* lines 108-109: the early return of the degenerate text
NoSentencesOrWords(num_sentences, num_words) ==
    num_sentences = 0 \/ num_words = 0

\* ClampFlesch without the clamp
UnclampedFlesch(num, den) == num

\* line 114: max(0, min(100, flesch_score)), the score being num / den
\* thousandths with den > 0
ClampFlesch(num, den) == Max(0, Min(100000 * den, num))

\* lines 112-130. The scores are exact fractions over den = S * W; a zero
\* divisor raises ZeroDivisionError at the first division it meets.
ReadabilityScores(num_words, num_sentences, num_syllables, complex_words) ==
    LET W == num_words
        S == num_sentences
        den == S * W
        \* 206.835 - 1.015 * (W / S) - 84.6 * (syllables / W), in thousandths
        flesch == 206835 * S * W - 1015 * W * W - 84600 * num_syllables * S
        \* 0.39 * (W / S) + 11.8 * (syllables / W) - 15.59, in hundredths
        fk == 39 * W * W + 1180 * num_syllables * S - 1559 * S * W
        \* 0.4 * ((W / S) + 100 * (complex / W)), in tenths
        fog == 4 * (W * W + 100 * complex_words * S)
    IN  IF S = 0 \/ W = 0 THEN Raised("ZeroDivisionError")
        ELSE [flesch_reading_ease |-> RoundDiv(ClampFlesch(flesch, den), 10 * den),
              flesch_kincaid_grade |-> RoundDiv(Max(0, fk), 10 * den),
              gunning_fog_index |-> RoundDiv(fog, den),
              avg_sentence_length |-> RoundDiv(10 * W, S),
              avg_syllables_per_word |-> RoundDiv(100 * num_syllables, W),
              complex_words_percentage |-> RoundDiv(1000 * complex_words, W)]

\* lines 94-95
ReadabilitySentences(cleaned) == NonEmptySentences(SplitSentences(cleaned))

\* line 97
ReadabilityWords(cleaned) == FindWords(Lower(cleaned))

\* lines 98, 103: the syllable count of the readability scores
ReadabilitySyllables(cleaned) == count_syllables(cleaned)

calculate_readability_score(s) ==
    IF s = <<>> THEN EmptyDict
    ELSE LET cleaned == clean_text(s)
             num_sentences == Len(ReadabilitySentences(cleaned))
             num_words == Len(ReadabilityWords(cleaned))
             num_syllables == ReadabilitySyllables(cleaned)
         IN  IF NoSentencesOrWords(num_sentences, num_words) THEN EmptyDict
             ELSE ReadabilityScores(num_words, num_sentences, num_syllables,
                                    count_complex_words(cleaned))

---------------------------------------------------------------------------
(* extract_sentiment_words                                                 *)

positive_words ==
    {<<"g","o","o","d">>, <<"g","r","e","a","t">>,
     <<"e","x","c","e","l","l","e","n","t">>, <<"a","m","a","z","i","n","g">>,
     <<"w","o","n","d","e","r","f","u","l">>, <<"f","a","n","t","a","s","t","i","c">>,
     <<"a","w","e","s","o","m","e">>, <<"b","r","i","l","l","i","a","n","t">>,
     <<"o","u","t","s","t","a","n","d","i","n","g">>, <<"p","e","r","f","e","c","t">>,
     <<"b","e","s","t">>, <<"l","o","v","e">>, <<"l","i","k","e">>,
     <<"e","n","j","o","y">>, <<"h","a","p","p","y">>, <<"p","l","e","a","s","e","d">>,
     <<"s","a","t","i","s","f","i","e","d">>, <<"i","m","p","r","e","s","s","e","d">>}

negative_words ==
    {<<"b","a","d">>, <<"t","e","r","r","i","b","l","e">>, <<"a","w","f","u","l">>,
     <<"h","o","r","r","i","b","l","e">>, <<"w","o","r","s","t">>,
     <<"d","i","s","a","p","p","o","i","n","t","i","n","g">>, <<"p","o","o","r">>,
     <<"u","n","h","a","p","p","y">>, <<"a","n","g","r","y">>,
     <<"f","r","u","s","t","r","a","t","e","d">>, <<"a","n","n","o","y","e","d">>,
     <<"u","p","s","e","t">>, <<"h","a","t","e">>, <<"d","i","s","l","i","k","e">>}

Range(f) == {f[i] : i \in DOMAIN f}

\* ListOfSet without set(): the list as found
ListAsFound(found) == {found}

\* list(set(found)): the elements of found, each once, in the order the set
\* iterates them, which the language leaves open: every order is possible
ListOfSet(found) ==
    LET S == Range(found)
    IN  {f \in [1..Cardinality(S) -> S] : Range(f) = S}

\* lines 248-249
SentimentFound(s, lexicon) ==
    SelectSeq(FindWords(Lower(s)), LAMBDA word : word \in lexicon)

\* the dictionaries a call may return
extract_sentiment_words(s) ==
    {[positive |-> p, negative |-> n] :
        p \in ListOfSet(SentimentFound(s, positive_words)),
        n \in ListOfSet(SentimentFound(s, negative_words))}

---------------------------------------------------------------------------
(* extract_keywords                                                        *)

stop_words ==
    {<<"t","h","e">>, <<"a">>, <<"a","n">>, <<"a","n","d">>, <<"o","r">>,
     <<"b","u","t">>, <<"i","n">>, <<"o","n">>, <<"a","t">>, <<"t","o">>,
     <<"f","o","r">>, <<"o","f">>, <<"w","i","t","h">>, <<"b","y">>, <<"i","s">>,
     <<"a","r","e">>, <<"w","a","s">>, <<"w","e","r","e">>, <<"b","e">>,
     <<"b","e","e","n">>, <<"b","e","i","n","g">>, <<"h","a","v","e">>, <<"h","a","s">>,
     <<"h","a","d">>, <<"d","o">>, <<"d","o","e","s">>, <<"d","i","d">>,
     <<"w","i","l","l">>, <<"w","o","u","l","d">>, <<"c","o","u","l","d">>,
     <<"s","h","o","u","l","d">>, <<"m","a","y">>, <<"m","i","g","h","t">>,
     <<"m","u","s","t">>, <<"c","a","n">>, <<"t","h","i","s">>, <<"t","h","a","t">>,
     <<"t","h","e","s","e">>, <<"t","h","o","s","e">>, <<"i">>, <<"y","o","u">>,
     <<"h","e">>, <<"s","h","e">>, <<"i","t">>, <<"w","e">>, <<"t","h","e","y">>,
     <<"m","e">>, <<"h","i","m">>, <<"h","e","r">>, <<"u","s">>, <<"t","h","e","m">>,
     <<"m","y">>, <<"y","o","u","r">>, <<"h","i","s">>, <<"i","t","s">>,
     <<"o","u","r">>, <<"t","h","e","i","r">>, <<"m","i","n","e">>,
     <<"y","o","u","r","s">>, <<"h","e","r","s">>, <<"o","u","r","s">>,
     <<"t","h","e","i","r","s">>, <<"a","m">>}

MinKeywordLength == 2

\* KeywordCandidates without the length test
KeywordCandidatesAnyLength(s) ==
    SelectSeq(FindWords(clean_text(Lower(s))),
              LAMBDA word : word \notin stop_words)

\* lines 67-68
KeywordCandidates(s) ==
    SelectSeq(FindWords(clean_text(Lower(s))),
              LAMBDA word : word \notin stop_words /\ Len(word) > MinKeywordLength)

\* Counter(words): the keys in the order of their first occurrence
RECURSIVE CounterKeys(_)
CounterKeys(words) ==
    IF words = <<>> THEN <<>>
    ELSE LET front == SubSeq(words, 1, Len(words) - 1)
             last == words[Len(words)]
         IN  IF last \in Range(front) THEN CounterKeys(front)
             ELSE Append(CounterKeys(front), last)

\* Counter(words)[word]
CounterCount(words, word) == Cardinality({i \in 1..Len(words) : words[i] = word})

\* PlaceByCount with equal counts placed the other way round
PlaceByCountTiesFirst(placed, key, words) ==
    LET ahead == Cardinality({i \in 1..Len(placed) :
                     CounterCount(words, placed[i]) > CounterCount(words, key)})
    IN  SubSeq(placed, 1, ahead) \o <<key>> \o SubSeq(placed, ahead + 1, Len(placed))

\* one step of the stable sort by descending count: key goes after the keys
\* already placed whose count is at least its own
PlaceByCount(placed, key, words) ==
    LET ahead == Cardinality({i \in 1..Len(placed) :
                     CounterCount(words, placed[i]) >= CounterCount(words, key)})
    IN  SubSeq(placed, 1, ahead) \o <<key>> \o SubSeq(placed, ahead + 1, Len(placed))

RECURSIVE SortByCount(_, _)
SortByCount(keys, words) ==
    IF keys = <<>> THEN <<>>
    ELSE PlaceByCount(SortByCount(SubSeq(keys, 1, Len(keys) - 1), words),
                      keys[Len(keys)], words)

\* Counter(words).most_common(n), n >= 0, without the counts
most_common(words, n) ==
    LET ranked == SortByCount(CounterKeys(words), words)
    IN  SubSeq(ranked, 1, Min(n, Len(ranked)))

extract_keywords(s, n) ==
    IF s = <<>> THEN <<>>
    ELSE most_common(KeywordCandidates(s), n)

---------------------------------------------------------------------------
(* calculate_text_statistics                                               *)

RECURSIVE SumLengths(_)
SumLengths(words) ==
    IF words = <<>> THEN 0 ELSE Len(Head(words)) + SumLengths(Tail(words))

ReadingSpeed == 200

\* line 272
StatisticsSentences(cleaned) == Len(SplitSentences(cleaned))

\* lines 265-302, on the cleaned text, for one of the sentiment
\* dictionaries extract_sentiment_words may return; an exception raised by
\* calculate_readability_score at line 283 leaves the function with it
TextStatistics(cleaned, sentiment) ==
    LET found == FindWords(cleaned)
        words == Len(found)
        paragraphs == SelectSeq(SplitOn(cleaned, <<"\n", "\n">>, <<>>),
                                LAMBDA para : Strip(para) # <<>>)
        readability == calculate_readability_score(cleaned)
    IN  IF "raised" \in DOMAIN readability THEN readability
        ELSE
        [characters |-> Len(cleaned),
         characters_no_spaces |-> Len(Replace(cleaned, <<" ">>, <<>>)),
         words |-> words,
         sentences |-> StatisticsSentences(cleaned),
         paragraphs |-> Len(paragraphs),
         unique_words |-> Cardinality(Range(FindWords(Lower(cleaned)))),
         avg_word_length |->
             IF words > 0 THEN RoundDiv(100 * SumLengths(found), words) ELSE 0,
         readability |-> readability,
         sentiment |-> sentiment,
         estimated_reading_time |-> RoundDiv(10 * words, ReadingSpeed)]

\* calculate_text_statistics without the early return of lines 266-267
StatisticsWithoutEarlyReturn(s) ==
    {TextStatistics(clean_text(s), sentiment) :
        sentiment \in extract_sentiment_words(clean_text(s))}

\* the dictionaries a call may return
calculate_text_statistics(s) ==
    IF s = <<>> THEN {EmptyDict}
    ELSE LET cleaned == clean_text(s)
         IN  {TextStatistics(cleaned, sentiment) :
                 sentiment \in extract_sentiment_words(cleaned)}

---------------------------------------------------------------------------
(* Inputs                                                                  *)

MaxNoiseLen == 5
MaxTypoLen == 2

NoiseAlphabet == {"a", " ", "@"}
TypoAlphabet ==
    {"a", "\t", EnDash, EmDash, LeftSingleQuote, RightSingleQuote,
     LeftDoubleQuote, RightDoubleQuote}

SeqsUpTo(S, n) == UNION {[1..k -> S] : k \in 0..n}

NoiseTexts == SeqsUpTo(NoiseAlphabet, MaxNoiseLen)
TypoTexts == SeqsUpTo(TypoAlphabet, MaxTypoLen)

\* str.join: the fragments with one space between them
RECURSIVE JoinWithSpace(_)
JoinWithSpace(ws) ==
    IF ws = <<>> THEN <<>>
    ELSE IF Len(ws) = 1 THEN ws[1]
    ELSE ws[1] \o <<" ">> \o JoinWithSpace(Tail(ws))

JoinedTexts(fragments, n) == {JoinWithSpace(ws) : ws \in SeqsUpTo(fragments, n)}

MaxSentenceFragments == 3

SentenceFragments ==
    {<<"T","h","e">>, <<"c","a","t">>, <<"s","a","t",".">>, <<"t","h","e">>,
     <<"a","m","a","z","i","n","g">>, <<"t","s","k">>, <<"-">>}

SentenceTexts == JoinedTexts(SentenceFragments, MaxSentenceFragments)

MaxSentimentWords == 3

SentimentVocabulary ==
    {<<"g","o","o","d">>, <<"G","o","o","d">>, <<"g","r","e","a","t">>,
     <<"b","a","d">>, <<"g","o","o","d","s">>}

SentimentTexts == JoinedTexts(SentimentVocabulary, MaxSentimentWords)

MaxKeywordWords == 6
MaxKeywords == 2

KeywordVocabulary == {<<"t","h","e">>, <<"d","o","g">>, <<"r","a","n">>}

KeywordTexts == JoinedTexts(KeywordVocabulary, MaxKeywordWords)

Inputs ==
    NoiseTexts \cup TypoTexts \cup SentenceTexts \cup SentimentTexts
        \cup KeywordTexts

None == [none |-> TRUE]

---------------------------------------------------------------------------
(* The campaigns table                                                     *)

\* the users who own rows, and those of them who make the requests
Owners == {"u1", "u2"}
Users == {"u1"}
CampaignIds == {"c1"}

\* the table after the schema is created: no row, no request
NoCampaigns ==
    /\ campaigns = [c \in CampaignIds |-> None]
    /\ other_campaigns = [u \in Users |-> 0]
    /\ creating = [u \in Users |-> 0]
    /\ background_tasks = [c \in CampaignIds |-> 0]
    /\ response = None

---------------------------------------------------------------------------
(* Redis                                                                   *)

\* no key, no check_rate_limit call, no queue call
NoRedis ==
    /\ minute = None
    /\ hour = None
    /\ passed_minute = 0
    /\ passed_hour = 0
    /\ last_check = None
    /\ now = 0
    /\ this_tick = 0
    /\ redis_list = <<>>
    /\ enqueued = <<>>
    /\ dequeued = None

---------------------------------------------------------------------------
(* The calls                                                               *)

Init ==
    /\ text \in Inputs
    /\ call = "idle"
    /\ max_keywords = 0
    /\ result = None
    /\ NoCampaigns
    /\ NoRedis

CleanText ==
    /\ call = "idle"
    /\ call' = "clean_text"
    /\ result' = clean_text(text)
    /\ UNCHANGED <<text, max_keywords>>
    /\ UNCHANGED <<campaign_vars, redis_vars>>

CountSyllables ==
    /\ call = "idle"
    /\ call' = "count_syllables"
    /\ result' = count_syllables(text)
    /\ UNCHANGED <<text, max_keywords>>
    /\ UNCHANGED <<campaign_vars, redis_vars>>

CountComplexWords ==
    /\ call = "idle"
    /\ call' = "count_complex_words"
    /\ result' = count_complex_words(text)
    /\ UNCHANGED <<text, max_keywords>>
    /\ UNCHANGED <<campaign_vars, redis_vars>>

CalculateReadabilityScore ==
    /\ call = "idle"
    /\ call' = "calculate_readability_score"
    /\ result' = calculate_readability_score(text)
    /\ UNCHANGED <<text, max_keywords>>
    /\ UNCHANGED <<campaign_vars, redis_vars>>

ExtractSentimentWords ==
    /\ call = "idle"
    /\ call' = "extract_sentiment_words"
    /\ result' \in extract_sentiment_words(text)
    /\ UNCHANGED <<text, max_keywords>>
    /\ UNCHANGED <<campaign_vars, redis_vars>>

ExtractKeywords ==
    /\ call = "idle"
    /\ \E n \in 0..MaxKeywords :
           /\ call' = "extract_keywords"
           /\ max_keywords' = n
           /\ result' = extract_keywords(text, n)
    /\ UNCHANGED text
    /\ UNCHANGED <<campaign_vars, redis_vars>>

CalculateTextStatistics ==
    /\ call = "idle"
    /\ call' = "calculate_text_statistics"
    /\ result' \in calculate_text_statistics(text)
    /\ UNCHANGED <<text, max_keywords>>
    /\ UNCHANGED <<campaign_vars, redis_vars>>

Next ==
    \/ CleanText
    \/ ExtractKeywords
    \/ CalculateTextStatistics
    \/ ExtractSentimentWords
    \/ CountSyllables
    \/ CountComplexWords
    \/ CalculateReadabilityScore

Spec == Init /\ [][Next]_vars

---------------------------------------------------------------------------
(* Properties of clean_text                                                *)

Count(s, c) == Cardinality({i \in 1..Len(s) : s[i] = c})

\* C4: clean_text is idempotent: cleaning the cleaned text changes nothing.
CleanTextIdempotent ==
    call = "clean_text" => clean_text(result) = result

\* C5: the cleaned text has no leading or trailing whitespace, and every
\* whitespace run in it is a single space.
CleanTextWhitespaceCollapsed ==
    call = "clean_text" =>
        /\ result # <<>> =>
               result[1] \notin Whitespace /\ result[Len(result)] \notin Whitespace
        /\ \A i \in 1..Len(result) :
               result[i] \in Whitespace =>
                   /\ result[i] = " "
                   /\ i < Len(result) => result[i + 1] \notin Whitespace

\* C6: every typographic quote and dash of the input is in the cleaned text
\* as its ASCII equivalent: it is replaced, not dropped.
CleanTextCanonicalizesTypography ==
    call = "clean_text" =>
        /\ Count(result, "-") =
               Count(text, "-") + Count(text, EnDash) + Count(text, EmDash)
        /\ Count(result, "'") =
               Count(text, "'") + Count(text, LeftSingleQuote)
                   + Count(text, RightSingleQuote)
        /\ Count(result, "\"") =
               Count(text, "\"") + Count(text, LeftDoubleQuote)
                   + Count(text, RightDoubleQuote)

---------------------------------------------------------------------------
(* Properties of calculate_readability_score                               *)

TheCatSat == <<"T","h","e"," ","c","a","t"," ","s","a","t",".">>

HasReport == "flesch_reading_ease" \in DOMAIN result

\* C1: whenever calculate_readability_score produces a report, its
\* flesch_reading_ease is between 0 and 100 (in hundredths: 0..10000).
FleschReadingEaseBounded ==
    call = "calculate_readability_score" /\ HasReport =>
        0 <= result.flesch_reading_ease /\ result.flesch_reading_ease <= 10000

\* the formula gives 118.79 for "The cat sat.": the report says 100
FleschClampedWitness ==
    /\ call = "calculate_readability_score"
    /\ text = TheCatSat
    /\ HasReport
    /\ result.flesch_reading_ease = 10000

\* C2: a cleaned text with no word or no sentence gets the empty report,
\* and no call divides by a zero word or sentence count.
DegenerateTextGetsEmptyReport ==
    call = "calculate_readability_score" =>
        /\ "raised" \notin DOMAIN result
        /\ (\/ Len(ReadabilityWords(clean_text(text))) = 0
            \/ Len(ReadabilitySentences(clean_text(text))) = 0)
               => DOMAIN result = {}

\* "-" is one sentence of no word
NoWordWitness ==
    /\ call = "calculate_readability_score"
    /\ text = <<"-">>
    /\ Len(ReadabilitySentences(clean_text(text))) = 1
    /\ Len(ReadabilityWords(clean_text(text))) = 0
    /\ DOMAIN result = {}

RECURSIVE SumSyllables(_)
SumSyllables(words) ==
    IF words = <<>> THEN 0
    ELSE count_syllables(Head(words)) + SumSyllables(Tail(words))

\* C8: the syllable count behind a readability report is the sum of the
\* syllable counts of the words of the text.
ReadabilitySyllablesSumOverWords ==
    call = "calculate_readability_score" /\ HasReport =>
        ReadabilitySyllables(clean_text(text)) =
            SumSyllables(ReadabilityWords(clean_text(text)))

---------------------------------------------------------------------------
(* Properties of calculate_text_statistics                                 *)

StatisticsSentencesNonEmpty ==
    call = "calculate_text_statistics" /\ "sentences" \in DOMAIN result =>
        /\ result.sentences = Len(ReadabilitySentences(clean_text(text)))
        /\ text = TheCatSat => result.words = 3 /\ result.sentences = 1

---------------------------------------------------------------------------
(* Properties of extract_sentiment_words                                   *)

NoRepeats(list) ==
    \A i, j \in 1..Len(list) : list[i] = list[j] => i = j

\* word occurs in s as a whole word, whatever the case of s
OccursIn(word, s) ==
    \E i \in 1..(Len(s) - Len(word) + 1) :
        LET last == i + Len(word) - 1
        IN  /\ i = 1 \/ s[i - 1] \notin WordChars
            /\ last = Len(s) \/ s[last + 1] \notin WordChars
            /\ \A k \in 1..Len(word) : LowerChar(s[i + k - 1]) = word[k]

GoodGoodGreat ==
    <<"g","o","o","d"," ","g","o","o","d"," ","g","r","e","a","t">>

\* C9: each list extract_sentiment_words returns has no repeated word and
\* holds exactly the words of its lexicon that occur in the text:
\* "good good great" gives positive = {good, great}.
SentimentWordsOnce ==
    call = "extract_sentiment_words" =>
        /\ NoRepeats(result.positive)
        /\ NoRepeats(result.negative)
        /\ Range(result.positive) = {w \in positive_words : OccursIn(w, text)}
        /\ Range(result.negative) = {w \in negative_words : OccursIn(w, text)}
        /\ text = GoodGoodGreat =>
               /\ Len(result.positive) = 2
               /\ Range(result.positive) =
                      {<<"g","o","o","d">>, <<"g","r","e","a","t">>}

SentimentRepeatedWordWitness ==
    /\ call = "extract_sentiment_words"
    /\ text = GoodGoodGreat
    /\ Len(result.positive) = 2
    /\ result.negative = <<>>

---------------------------------------------------------------------------
(* Properties of extract_keywords                                          *)

Occurrences(word, words) == {i \in 1..Len(words) : words[i] = word}

FirstOccurrence(word, words) ==
    CHOOSE i \in Occurrences(word, words) :
        \A j \in Occurrences(word, words) : i <= j

\* a is ranked before b: it is more frequent, or as frequent and seen first
RankedBefore(a, b, words) ==
    LET ca == Cardinality(Occurrences(a, words))
        cb == Cardinality(Occurrences(b, words))
    IN  \/ ca > cb
        \/ ca = cb /\ FirstOccurrence(a, words) < FirstOccurrence(b, words)

TheTheTheDogRanDog ==
    <<"t","h","e"," ","t","h","e"," ","t","h","e"," ",
      "d","o","g"," ","r","a","n"," ","d","o","g">>

\* C10: extract_keywords returns the first max_keywords tokens of the
\* ranking by descending frequency, equal frequencies by first occurrence:
\* "the the the dog ran dog" with max_keywords = 2 gives [dog, ran].
KeywordsRankedByFrequency ==
    call = "extract_keywords" =>
        LET words == KeywordCandidates(text)
        IN  /\ NoRepeats(result)
            /\ Range(result) \subseteq Range(words)
            /\ Len(result) = Min(max_keywords, Cardinality(Range(words)))
            /\ \A i, j \in 1..Len(result) :
                   i < j => RankedBefore(result[i], result[j], words)
            /\ \A i \in 1..Len(result) :
                   \A w \in Range(words) \ Range(result) :
                       RankedBefore(result[i], w, words)
            /\ text = TheTheTheDogRanDog /\ max_keywords = 2 =>
                   result = <<<<"d","o","g">>, <<"r","a","n">>>>

KeywordsExampleWitness ==
    /\ call = "extract_keywords"
    /\ text = TheTheTheDogRanDog
    /\ max_keywords = 2
    /\ result = <<<<"d","o","g">>, <<"r","a","n">>>>


\* word is a word token of s: a maximal run of word characters
IsTokenOf(word, s) ==
    \E i \in 1..(Len(s) - Len(word) + 1) :
        LET last == i + Len(word) - 1
        IN  /\ i = 1 \/ s[i - 1] \notin WordChars
            /\ last = Len(s) \/ s[last + 1] \notin WordChars
            /\ \A k \in 1..Len(word) : s[i + k - 1] = word[k]

KeywordsFiltered ==
    /\ NoRepeats(result)
    /\ Len(result) <= max_keywords
    /\ \A i \in 1..Len(result) :
           /\ result[i] \notin stop_words
           /\ Len(result[i]) >= 3
           /\ Lower(result[i]) = result[i]

\* C11 as stated: the keywords hold no stop word, no token shorter than 3
\* characters and no repeated token, are at most max_keywords, and each is
\* a token of the input, lowercased.
KeywordsAreInputTokens ==
    call = "extract_keywords" =>
        /\ KeywordsFiltered
        /\ \A i \in 1..Len(result) : OccursIn(result[i], text)

\* C11 amended: the keywords hold no stop word, no token shorter than 3
\* characters and no repeated token, are at most max_keywords, and each is
\* a token of the lowercased input as clean_text leaves it.
KeywordsAreCleanedTokens ==
    call = "extract_keywords" =>
        /\ KeywordsFiltered
        /\ \A i \in 1..Len(result) :
               IsTokenOf(result[i], clean_text(Lower(text)))

\* a short word, a stop word and a repeated word are left out
KeywordsFilteredWitness ==
    /\ call = "extract_keywords"
    /\ text = TheTheTheDogRanDog
    /\ max_keywords = 1
    /\ result = <<<<"d","o","g">>>>

---------------------------------------------------------------------------
(* Properties of count_syllables and count_complex_words                   *)

\* C12: the complex words of a text are at most its words, and the
\* complex_words_percentage of a report is between 0 and 100 (in tenths:
\* 0..1000).
ComplexWordsAtMostWords ==
    /\ call = "count_complex_words" =>
           0 <= result /\ result <= Len(FindWords(text))
    /\ call = "calculate_readability_score" /\ HasReport =>
           /\ 0 <= result.complex_words_percentage
           /\ result.complex_words_percentage <= 1000

\* "amazing" is one word of three syllables: 100 per cent
ComplexWordWitness ==
    /\ call = "calculate_readability_score"
    /\ text = <<"a","m","a","z","i","n","g">>
    /\ HasReport
    /\ result.complex_words_percentage = 1000

\* C13: count_syllables is at least 1, also for a word with no vowel and
\* for a word whose only vowel group is its final e.
SyllablesAtLeastOne ==
    call = "count_syllables" => result >= 1

\* "the": one vowel group, taken off for the final e, floored at 1
FinalEWitness ==
    /\ call = "count_syllables"
    /\ text = <<"t","h","e">>
    /\ VowelGroups(text, FALSE) = 1
    /\ result = 1

---------------------------------------------------------------------------
(* Totality                                                                *)

\* C14: clean_text, calculate_readability_score and
\* calculate_text_statistics return a value for every text and raise
\* nothing; clean_text of an empty or all-whitespace text is the empty text.
ScoringIsTotal ==
    /\ call \in {"calculate_readability_score", "calculate_text_statistics"} =>
           "raised" \notin DOMAIN result
    /\ call = "clean_text" /\ (\A i \in 1..Len(text) : text[i] \in Whitespace) =>
           result = <<>>

\* a text of removed special characters only: statistics of no word
SpecialOnlyWitness ==
    /\ call = "calculate_text_statistics"
    /\ text = <<"@", "@">>
    /\ "words" \in DOMAIN result
    /\ result.words = 0
    /\ DOMAIN result.readability = {}

---------------------------------------------------------------------------
(* Campaign endpoints: rows, requests, responses                           *)

\* the statuses CampaignUpdate.status accepts
UpdateStatuses == {"draft", "scheduled", "sending", "sent", "paused"}

\* the limit create_campaign compares the count with
CampaignLimit == 100

MaxFreeSlots == 1
MaxInFlight == 2
MaxBackgroundTasks == 2
MaxRecipients == 1

\* name stands for the free-text columns (name, subject, content, ...)
Names == {"n1", "n2"}
ScheduleTimes == {"t1"}
NullTime == "NULL"
UtcNow == "utcnow"

\* a row as create_campaign inserts it
NewCampaign(user, name, scheduled_at) ==
    [user_id |-> user,
     name |-> name,
     status |-> "draft",
     scheduled_at |-> scheduled_at,
     sent_at |-> NullTime,
     recipients |-> 0]

HTTPException(status_code, detail) ==
    [status_code |-> status_code, detail |-> detail]

Returned(message) == [status_code |-> 200, message |-> message]

\* except HTTPException: raise
Reraised(exception) == exception

\* create_campaign's only handler: except Exception
CreateFailed(exception) ==
    HTTPException(500, "Failed to create campaign")

\* select(Campaign).where(Campaign.id == campaign_id,
\*                        Campaign.user_id == current_user.id)
ScalarOneOrNone(campaign_id, user) ==
    IF campaigns[campaign_id] # None /\ campaigns[campaign_id].user_id = user
    THEN campaigns[campaign_id]
    ELSE None

\* the number of rows of select(Campaign).where(Campaign.user_id == user)
CountCampaigns(user) ==
    Cardinality({c \in CampaignIds :
                    campaigns[c] # None /\ campaigns[c].user_id = user})
    + other_campaigns[user]

LimitReached(user) == CountCampaigns(user) >= CampaignLimit

\* update_campaign and delete_campaign refuse any status but "sent"
SentOnly(campaign) == campaign.status = "sent"

SentOrSending(campaign) == campaign.status \in {"sending", "sent"}

\* pause_campaign with no test of the status
AnyStatus(campaign) == TRUE

IsSending(campaign) == campaign.status = "sending"

\* the fields of CampaignUpdate the requests set
UpdateFields == {"name", "status"}

FieldValues(field) ==
    CASE field = "name" -> Names
      [] field = "status" -> UpdateStatuses

\* campaign_data.dict(exclude_unset=True)
UpdateData ==
    UNION {{data \in [fields -> Names \cup UpdateStatuses] :
                \A field \in fields : data[field] \in FieldValues(field)} :
           fields \in SUBSET UpdateFields}

\* for field, value in update_data.items(): setattr(campaign, field, value)
SetAttrs(campaign, update_data) ==
    [field \in DOMAIN campaign |->
        IF field \in DOMAIN update_data
        THEN update_data[field]
        ELSE campaign[field]]

\* the handler leaves with an HTTPException it re-raises
Refused(exception) ==
    /\ response' = Reraised(exception)
    /\ UNCHANGED <<campaigns, background_tasks>>

NotFound == HTTPException(404, "Campaign not found")

---------------------------------------------------------------------------
(* Campaign endpoints: the handlers                                        *)

InitCampaigns ==
    /\ text = <<>>
    /\ call = "idle"
    /\ max_keywords = 0
    /\ result = None
    /\ NoRedis
    /\ campaigns \in
           [CampaignIds ->
               {None} \cup
               {[NewCampaign(user, name, NullTime)
                    EXCEPT !.recipients = recipients] :
                   user \in Owners, name \in Names,
                   recipients \in 0..MaxRecipients}]
    /\ other_campaigns \in
           [Users -> (CampaignLimit - MaxFreeSlots)..CampaignLimit]
    /\ \A user \in Users : CountCampaigns(user) <= CampaignLimit
    /\ creating = [u \in Users |-> 0]
    /\ background_tasks = [c \in CampaignIds |-> 0]
    /\ response = None

\* create_campaign up to the limit check
CreateCampaignCheck(user) ==
    /\ creating[user] < MaxInFlight
    /\ IF LimitReached(user)
       THEN /\ response' =
                  CreateFailed(HTTPException(400,
                      "Campaign limit reached. Please upgrade your plan."))
            /\ UNCHANGED creating
       ELSE /\ creating' = [creating EXCEPT ![user] = @ + 1]
            /\ UNCHANGED response
    /\ UNCHANGED <<campaigns, other_campaigns, background_tasks>>
    /\ UNCHANGED <<text_vars, redis_vars>>

\* create_campaign from the insert on: the new row has an id the requests
\* name (if one is free) or another
CreateCampaignInsert(user, name, scheduled_at) ==
    /\ creating[user] > 0
    /\ creating' = [creating EXCEPT ![user] = @ - 1]
    /\ \/ \E c \in CampaignIds :
              /\ campaigns[c] = None
              /\ campaigns' =
                     [campaigns EXCEPT
                         ![c] = NewCampaign(user, name, scheduled_at)]
              /\ UNCHANGED other_campaigns
       \/ /\ other_campaigns' = [other_campaigns EXCEPT ![user] = @ + 1]
          /\ UNCHANGED campaigns
    /\ response' = Returned("CampaignResponse")
    /\ UNCHANGED background_tasks
    /\ UNCHANGED <<text_vars, redis_vars>>

UpdateCampaign(user, campaign_id, update_data) ==
    LET campaign == ScalarOneOrNone(campaign_id, user)
    IN  /\ IF campaign = None
           THEN Refused(NotFound)
           ELSE IF SentOrSending(campaign)
           THEN Refused(HTTPException(400,
                    "Cannot update campaign that is already sent or sending"))
           ELSE /\ campaigns' =
                      [campaigns EXCEPT
                          ![campaign_id] = SetAttrs(campaign, update_data)]
                /\ response' = Returned("CampaignResponse")
                /\ UNCHANGED background_tasks
        /\ UNCHANGED <<other_campaigns, creating>>
        /\ UNCHANGED <<text_vars, redis_vars>>

DeleteCampaign(user, campaign_id) ==
    LET campaign == ScalarOneOrNone(campaign_id, user)
    IN  /\ IF campaign = None
           THEN Refused(NotFound)
           ELSE IF SentOrSending(campaign)
           THEN Refused(HTTPException(400,
                    "Cannot delete campaign that is already sent or sending"))
           ELSE /\ campaigns' = [campaigns EXCEPT ![campaign_id] = None]
                /\ response' = Returned("Campaign deleted successfully")
                /\ UNCHANGED background_tasks
        /\ UNCHANGED <<other_campaigns, creating>>
        /\ UNCHANGED <<text_vars, redis_vars>>

SendCampaign(user, campaign_id) ==
    LET campaign == ScalarOneOrNone(campaign_id, user)
    IN  /\ background_tasks[campaign_id] < MaxBackgroundTasks
        /\ IF campaign = None
           THEN Refused(NotFound)
           ELSE IF campaign.status # "draft"
           THEN Refused(HTTPException(400,
                    "Only draft campaigns can be sent"))
           ELSE IF campaign.recipients = 0
           THEN Refused(HTTPException(400, "Campaign has no recipients"))
           ELSE /\ campaigns' =
                      [campaigns EXCEPT
                          ![campaign_id].status = "sending",
                          ![campaign_id].sent_at = UtcNow]
                /\ background_tasks' =
                      [background_tasks EXCEPT ![campaign_id] = @ + 1]
                /\ response' = Returned("Campaign sending started")
        /\ UNCHANGED <<other_campaigns, creating>>
        /\ UNCHANGED <<text_vars, redis_vars>>

ScheduleCampaign(user, campaign_id, scheduled_at) ==
    LET campaign == ScalarOneOrNone(campaign_id, user)
    IN  /\ IF campaign = None
           THEN Refused(NotFound)
           ELSE IF campaign.status # "draft"
           THEN Refused(HTTPException(400,
                    "Only draft campaigns can be scheduled"))
           ELSE /\ campaigns' =
                      [campaigns EXCEPT
                          ![campaign_id].status = "scheduled",
                          ![campaign_id].scheduled_at = scheduled_at]
                /\ response' = Returned("Campaign scheduled successfully")
                /\ UNCHANGED background_tasks
        /\ UNCHANGED <<other_campaigns, creating>>
        /\ UNCHANGED <<text_vars, redis_vars>>

PauseCampaign(user, campaign_id) ==
    LET campaign == ScalarOneOrNone(campaign_id, user)
    IN  /\ IF campaign = None
           THEN Refused(NotFound)
           ELSE IF ~IsSending(campaign)
           THEN Refused(HTTPException(400,
                    "Only sending campaigns can be paused"))
           ELSE /\ campaigns' =
                      [campaigns EXCEPT ![campaign_id].status = "paused"]
                /\ response' = Returned("Campaign paused successfully")
                /\ UNCHANGED background_tasks
        /\ UNCHANGED <<other_campaigns, creating>>
        /\ UNCHANGED <<text_vars, redis_vars>>

ResumeCampaign(user, campaign_id) ==
    LET campaign == ScalarOneOrNone(campaign_id, user)
    IN  /\ background_tasks[campaign_id] < MaxBackgroundTasks
        /\ IF campaign = None
           THEN Refused(NotFound)
           ELSE IF campaign.status # "paused"
           THEN Refused(HTTPException(400,
                    "Only paused campaigns can be resumed"))
           ELSE /\ campaigns' =
                      [campaigns EXCEPT ![campaign_id].status = "sending"]
                /\ background_tasks' =
                      [background_tasks EXCEPT ![campaign_id] = @ + 1]
                /\ response' = Returned("Campaign resumed successfully")
        /\ UNCHANGED <<other_campaigns, creating>>
        /\ UNCHANGED <<text_vars, redis_vars>>

\* the background task runs to its end: it writes two log lines
SendCampaignBackground(campaign_id) ==
    /\ background_tasks[campaign_id] > 0
    /\ background_tasks' = [background_tasks EXCEPT ![campaign_id] = @ - 1]
    /\ UNCHANGED <<campaigns, other_campaigns, creating, response>>
    /\ UNCHANGED <<text_vars, redis_vars>>

NextCampaigns ==
    \/ \E user \in Users : CreateCampaignCheck(user)
    \/ \E user \in Users, name \in Names,
          scheduled_at \in ScheduleTimes \cup {NullTime} :
           CreateCampaignInsert(user, name, scheduled_at)
    \/ \E user \in Users, campaign_id \in CampaignIds,
          update_data \in UpdateData :
           UpdateCampaign(user, campaign_id, update_data)
    \/ \E user \in Users, campaign_id \in CampaignIds :
           \/ DeleteCampaign(user, campaign_id)
           \/ SendCampaign(user, campaign_id)
           \/ PauseCampaign(user, campaign_id)
           \/ ResumeCampaign(user, campaign_id)
    \/ \E user \in Users, campaign_id \in CampaignIds,
          scheduled_at \in ScheduleTimes :
           ScheduleCampaign(user, campaign_id, scheduled_at)
    \/ \E campaign_id \in CampaignIds : SendCampaignBackground(campaign_id)

SpecCampaigns == InitCampaigns /\ [][NextCampaigns]_vars

---------------------------------------------------------------------------
(* Properties of the campaign endpoints                                    *)

OwnedBy(campaign_id, user) ==
    campaigns[campaign_id] # None /\ campaigns[campaign_id].user_id = user

\* the request is answered 400 and the status stays
RefusedUnchanged(campaign_id) ==
    /\ response'.status_code = 400
    /\ campaigns'[campaign_id].status = campaigns[campaign_id].status

\* the request is answered 200 and the status goes from one to another
Moved(campaign_id, from, to) ==
    /\ campaigns[campaign_id].status = from
    /\ campaigns'[campaign_id].status = to
    /\ response'.status_code = 200

\* C16: on a campaign of the caller, send moves draft to sending (with a
\* recipient), schedule moves draft to scheduled, pause moves sending to
\* paused, resume moves paused to sending; called in any other status, each
\* answers 400 and leaves the status.
LifecycleEdges ==
    [][\A user \in Users, c \in CampaignIds :
          OwnedBy(c, user) =>
              /\ SendCampaign(user, c) =>
                     IF campaigns[c].status = "draft"
                        /\ campaigns[c].recipients >= 1
                     THEN Moved(c, "draft", "sending")
                     ELSE RefusedUnchanged(c)
              /\ (\E scheduled_at \in ScheduleTimes :
                      ScheduleCampaign(user, c, scheduled_at)) =>
                     IF campaigns[c].status = "draft"
                     THEN Moved(c, "draft", "scheduled")
                     ELSE RefusedUnchanged(c)
              /\ PauseCampaign(user, c) =>
                     IF campaigns[c].status = "sending"
                     THEN Moved(c, "sending", "paused")
                     ELSE RefusedUnchanged(c)
              /\ ResumeCampaign(user, c) =>
                     IF campaigns[c].status = "paused"
                     THEN Moved(c, "paused", "sending")
                     ELSE RefusedUnchanged(c)
      ]_vars

\* a campaign sent, paused and resumed
ResumedWitness ==
    /\ response = Returned("Campaign resumed successfully")
    /\ campaigns["c1"] # None
    /\ campaigns["c1"].status = "sending"
    /\ campaigns["c1"].sent_at = UtcNow

\* C17: update_campaign and delete_campaign on a campaign of the caller
\* whose status is sending or sent answer 400 and change no row.
SentOrSendingIsFrozen ==
    [][\A user \in Users, c \in CampaignIds :
          (/\ OwnedBy(c, user)
           /\ campaigns[c].status \in {"sending", "sent"}
           /\ \/ DeleteCampaign(user, c)
              \/ \E update_data \in UpdateData :
                     UpdateCampaign(user, c, update_data))
          => /\ response'.status_code = 400
             /\ campaigns' = campaigns
      ]_vars

\* delete_campaign refused on a campaign that is sending
DeleteRefusedWitness ==
    /\ response = HTTPException(400,
           "Cannot delete campaign that is already sent or sending")
    /\ campaigns["c1"] # None
    /\ campaigns["c1"].status = "sending"

\* C18: a campaign enters status sending only by a send_campaign or a
\* resume_campaign, and update_campaign moves no campaign into status
\* sending or sent.
SendingOnlyBySendOrResume ==
    [][\A c \in CampaignIds :
          /\ (/\ campaigns'[c] # None
              /\ campaigns'[c].status = "sending"
              /\ campaigns[c] = None \/ campaigns[c].status # "sending")
             => \E user \in Users :
                    SendCampaign(user, c) \/ ResumeCampaign(user, c)
          /\ \A user \in Users, update_data \in UpdateData :
                 (/\ UpdateCampaign(user, c, update_data)
                  /\ campaigns'[c] # None
                  /\ campaigns'[c].status \in {"sending", "sent"})
                 => campaigns[c].status = campaigns'[c].status
      ]_vars

\* C19: when the background task of a campaign that is sending has run,
\* the campaign has left status sending.
BackgroundSendLeavesSending ==
    [][\A c \in CampaignIds :
          (/\ SendCampaignBackground(c)
           /\ campaigns[c] # None
           /\ campaigns[c].status = "sending")
          => campaigns'[c].status # "sending"
      ]_vars

\* C20: create_campaign of a user who owns 100 campaigns or more answers
\* 400 "Campaign limit reached. Please upgrade your plan." and creates no
\* campaign.
LimitAnswers400 ==
    [][\A user \in Users :
          (CreateCampaignCheck(user) /\ CountCampaigns(user) >= CampaignLimit)
          => /\ response' = HTTPException(400,
                    "Campaign limit reached. Please upgrade your plan.")
             /\ campaigns' = campaigns
             /\ other_campaigns' = other_campaigns
             /\ creating' = creating
      ]_vars

\* C21: no user owns more than 100 campaigns, whatever the order of the
\* steps of concurrent create_campaign requests.
UserOwnsAtMostLimit ==
    \A user \in Users : CountCampaigns(user) <= CampaignLimit

---------------------------------------------------------------------------
(* check_rate_limit                                                        *)

RATE_LIMIT_PER_MINUTE == 100
RATE_LIMIT_PER_HOUR == 1000

\* the seconds of pipe.expire
MinuteExpire == 60
HourExpire == 3600

\* the time advances by TickSeconds; the client begins at most
\* MaxRequestsPerTick calls at one tick, and at most MaxConcurrentChecks of
\* its calls are between their first read and their return
TickSeconds == 30
MaxRequestsPerTick == 30
MaxConcurrentChecks == 2
MaxClock == 4
MaxHourSlack == 1

\* count = redis.get(key); count and int(count) >= limit
LimitHit(key, limit) == key # None /\ key.count >= limit

\* pipe.incr(key); pipe.expire(key, seconds)
IncrExpire(key, seconds) ==
    [count |-> IF key = None THEN 1 ELSE key.count + 1, ttl |-> seconds]

\* the key after TickSeconds more
Aged(key) ==
    IF key = None \/ key.ttl <= TickSeconds
    THEN None
    ELSE [key EXCEPT !.ttl = @ - TickSeconds]

CheckReturned(returned, check) == [returned |-> returned, check |-> check]

\* no key, or an hour counter near its limit whose minute key has expired
InitRateLimit ==
    /\ text = <<>>
    /\ call = "idle"
    /\ max_keywords = 0
    /\ result = None
    /\ NoCampaigns
    /\ minute = None
    /\ hour \in {None} \cup
           {[count |-> count, ttl |-> HourExpire - MinuteExpire] :
               count \in (RATE_LIMIT_PER_HOUR - MaxHourSlack)
                             ..RATE_LIMIT_PER_HOUR}
    /\ passed_minute = 0
    /\ passed_hour = 0
    /\ last_check = None
    /\ now = 0
    /\ this_tick = 0
    /\ redis_list = <<>>
    /\ enqueued = <<>>
    /\ dequeued = None

\* check_rate_limit up to the minute check
CheckMinuteLimit ==
    /\ this_tick < MaxRequestsPerTick
    /\ passed_minute + passed_hour < MaxConcurrentChecks
    /\ this_tick' = this_tick + 1
    /\ IF LimitHit(minute, RATE_LIMIT_PER_MINUTE)
       THEN /\ last_check' = CheckReturned(FALSE, "minute")
            /\ UNCHANGED passed_minute
       ELSE /\ passed_minute' = passed_minute + 1
            /\ UNCHANGED last_check
    /\ UNCHANGED <<minute, hour, passed_hour, now>>
    /\ UNCHANGED <<text_vars, campaign_vars, queue_vars>>

\* check_rate_limit from the read of the hour counter to the hour check
CheckHourLimit ==
    /\ passed_minute > 0
    /\ passed_minute' = passed_minute - 1
    /\ IF LimitHit(hour, RATE_LIMIT_PER_HOUR)
       THEN /\ last_check' = CheckReturned(FALSE, "hour")
            /\ UNCHANGED passed_hour
       ELSE /\ passed_hour' = passed_hour + 1
            /\ UNCHANGED last_check
    /\ UNCHANGED <<minute, hour, now, this_tick>>
    /\ UNCHANGED <<text_vars, campaign_vars, queue_vars>>

\* check_rate_limit from the pipeline on: both counters, then return True
IncrementCounters ==
    /\ passed_hour > 0
    /\ passed_hour' = passed_hour - 1
    /\ minute' = IncrExpire(minute, MinuteExpire)
    /\ hour' = IncrExpire(hour, HourExpire)
    /\ last_check' = CheckReturned(TRUE, "none")
    /\ UNCHANGED <<passed_minute, now, this_tick>>
    /\ UNCHANGED <<text_vars, campaign_vars, queue_vars>>

\* TickSeconds pass
Tick ==
    /\ now < MaxClock
    /\ now' = now + 1
    /\ this_tick' = 0
    /\ minute' = Aged(minute)
    /\ hour' = Aged(hour)
    /\ UNCHANGED <<passed_minute, passed_hour, last_check>>
    /\ UNCHANGED <<text_vars, campaign_vars, queue_vars>>

NextRateLimit ==
    \/ CheckMinuteLimit
    \/ CheckHourLimit
    \/ IncrementCounters
    \/ Tick

SpecRateLimit == InitRateLimit /\ [][NextRateLimit]_vars

---------------------------------------------------------------------------
(* Properties of check_rate_limit                                          *)

\* the calls check_rate_limit has admitted while the key lives: each
\* admission is one INCR of the key, which is created at 1
Admitted(key) == IF key = None THEN 0 ELSE key.count

\* C22: while the minute key lives at most RATE_LIMIT_PER_MINUTE calls are
\* admitted, while the hour key lives at most RATE_LIMIT_PER_HOUR, whatever
\* the order of the steps of concurrent calls; a call that returns False
\* changes no counter.
AdmitsAtMostLimit ==
    [][/\ Admitted(minute') <= RATE_LIMIT_PER_MINUTE
       /\ Admitted(hour') <= RATE_LIMIT_PER_HOUR
       /\ (last_check' # last_check /\ ~last_check'.returned)
          => minute' = minute /\ hour' = hour
      ]_vars

\* the most calls the client begins in a closed interval of 60 seconds
MaxRequestsPerWindow == (MinuteExpire \div TickSeconds + 1) * MaxRequestsPerTick

\* C23: a client that begins fewer than RATE_LIMIT_PER_MINUTE calls in
\* every interval of 60 seconds is never refused by the minute check.
NeverRefusedByMinuteCheck ==
    MaxRequestsPerWindow < RATE_LIMIT_PER_MINUTE =>
        ~(/\ "returned" \in DOMAIN last_check
          /\ ~last_check.returned
          /\ last_check.check = "minute")

---------------------------------------------------------------------------
(* Queue                                                                   *)

MaxQueueLen == 3

\* Python values: the type and the text str() gives
PyStr(v) == [py |-> "str", v |-> v]
PyInt(v) == [py |-> "int", v |-> v]
PyList(v) == [py |-> "list", v |-> v]

\* the items given to enqueue
Items ==
    {PyStr("a"), PyStr(""), PyStr("1"), PyStr("null"), PyInt("1"),
     PyList("[]")}

\* json.dumps of a list, str of the others
Stored(data) == data.v

\* the texts of the model that json.loads accepts
JsonTexts == {"1", "null", "[]"}

\* json.loads
JsonLoads(data) ==
    CASE data = "1" -> PyInt("1")
      [] data = "null" -> None
      [] data = "[]" -> PyList("[]")
      [] OTHER -> Raised("JSONDecodeError")

\* dequeue after the rpop: if data: try json.loads(data),
\* except json.JSONDecodeError: return data; else None
Loaded(popped) ==
    IF popped = None
    THEN None
    ELSE IF popped.data = ""
    THEN None
    ELSE IF popped.data \in JsonTexts
    THEN JsonLoads(popped.data)
    ELSE PyStr(popped.data)

\* LPUSH name value ...: each value in turn at the left end
RECURSIVE LPush(_, _)
LPush(list, values) ==
    IF values = <<>>
    THEN list
    ELSE LPush(<<Head(values)>> \o list, Tail(values))

\* RPOP name: the value popped, None for an empty list
RPopped(list) == IF list = <<>> THEN None ELSE [data |-> list[Len(list)]]

RPopRest(list) ==
    IF list = <<>> THEN list ELSE SubSeq(list, 1, Len(list) - 1)

InitQueue ==
    /\ text = <<>>
    /\ call = "idle"
    /\ max_keywords = 0
    /\ result = None
    /\ NoCampaigns
    /\ NoRedis

Enqueue(data) ==
    /\ Len(redis_list) < MaxQueueLen
    /\ redis_list' = LPush(redis_list, <<Stored(data)>>)
    /\ enqueued' = Append(enqueued, data)
    /\ UNCHANGED dequeued
    /\ UNCHANGED <<text_vars, campaign_vars, rate_vars>>

Dequeue ==
    /\ dequeued' = Loaded(RPopped(redis_list))
    /\ redis_list' = RPopRest(redis_list)
    /\ enqueued' = IF enqueued = <<>> THEN enqueued ELSE Tail(enqueued)
    /\ UNCHANGED <<text_vars, campaign_vars, rate_vars>>

NextQueue ==
    \/ \E data \in Items : Enqueue(data)
    \/ Dequeue

SpecQueue == InitQueue /\ [][NextQueue]_vars

---------------------------------------------------------------------------
(* Properties of Queue                                                     *)

\* C24: over every interleaving of enqueue and dequeue calls, dequeue
\* returns None when the queue is empty, and otherwise the oldest item
\* enqueued and not yet returned (an item counts as returned when the value
\* returned has its stored text, whatever its type).
QueueIsFifo ==
    [][Dequeue =>
          IF enqueued = <<>>
          THEN dequeued' = None
          ELSE /\ dequeued' # None
               /\ Stored(dequeued') = Stored(Head(enqueued))
      ]_vars

===========================================================================
